---- MODULE Spec2Model ----
(***************************************************************************)
(* Build-time image optimization cache (imageOptimizer utility).           *)
(*                                                                         *)
(* The module keeps one process-wide Map, imageCache, from a string key to *)
(* a GetImageResult.  optimizeImage is an async function: it runs without  *)
(* interruption from its entry to its first `await getImage(...)`, is      *)
(* suspended there while other calls may start or resume, and runs without *)
(* interruption again from the settlement of getImage to its return.       *)
(*                                                                         *)
(* JavaScript strings are sequences of one-character strings, so that      *)
(* startsWith and the template literal of getCacheKey are computed and not *)
(* assumed.  An optional number is <<>> (undefined) or <<n>>; an optional  *)
(* string is <<>> or its characters.                                       *)
(***************************************************************************)
EXTENDS Integers, Sequences, FiniteSets, TLC

\* Number of calls (direct or through a wrapper) issued during one build.
MaxCalls == 3

Calls == 1..MaxCalls

-----------------------------------------------------------------------------
(* JavaScript values *)

Undefined == <<>>

Num(n) == <<n>>

\* `!v` for the values that occur: undefined, 0 and '' are falsy.
Falsy(v) == v = Undefined \/ v = Num(0)

\* `v || d`
OrElse(v, d) == IF Falsy(v) THEN d ELSE v

Digit(d) == <<"0", "1", "2", "3", "4", "5", "6", "7", "8", "9">>[d + 1]

RECURSIVE NumToString(_)
\* String(n) for a non-negative integer n, as a template literal prints it.
NumToString(n) == IF n < 10 THEN <<Digit(n)>>
                  ELSE NumToString(n \div 10) \o <<Digit(n % 10)>>

\* String.prototype.startsWith
StartsWith(s, p) == Len(s) >= Len(p) /\ SubSeq(s, 1, Len(p)) = p

HttpPrefix == <<"h", "t", "t", "p", ":", "/", "/">>
HttpsPrefix == <<"h", "t", "t", "p", "s", ":", "/", "/">>
Auto == <<"a", "u", "t", "o">>
Webp == <<"w", "e", "b", "p">>
Dash == <<"-">>

-----------------------------------------------------------------------------
(* Sources: `src` is a string or an ImageMetadata imported from src/assets *)

StringSrc(s) == [kind |-> "string", src |-> s]

ImageMetadata(s, w, h) == [kind |-> "ImageMetadata", src |-> s, width |-> w, height |-> h]

NoSrc == [kind |-> "undefined"]

IsString(src) == src.kind = "string"

\* The sources of the build: a public/ folder path, two remote URLs, and an
\* imported asset whose emitted src is that same path.
LocalPath == <<"/", "a">>
RemoteUrl == HttpsPrefix \o <<"x">>
RemoteHttpUrl == HttpPrefix \o <<"x">>
Asset == ImageMetadata(LocalPath, 800, 600)

-----------------------------------------------------------------------------
(* getCacheKey *)

NumPart(v) == IF Falsy(v) THEN Auto ELSE NumToString(v[1])

StrPart(v) == IF Falsy(v) THEN Auto ELSE v

getCacheKey(options) ==
    LET srcStr == options.src.src
    IN srcStr \o Dash \o NumPart(options.width) \o Dash \o NumPart(options.height)
              \o Dash \o StrPart(options.format) \o Dash \o NumPart(options.quality)

-----------------------------------------------------------------------------
(* Results *)

DefaultWidth == 1200
DefaultHeight == 630
DefaultQuality == 80

EmptySrcSet == [values |-> <<>>, attribute |-> <<>>]

\* The object literal of the remote branch; `id` is the identity of the object.
RemoteResult(id, options) ==
    [id |-> id, via |-> "remote", src |-> options.src.src,
     attributes |-> [width |-> OrElse(options.width, Num(DefaultWidth)),
                     height |-> OrElse(options.height, Num(DefaultHeight))],
     options |-> [src |-> options.src,
                  width |-> OrElse(options.width, Num(DefaultWidth)),
                  height |-> OrElse(options.height, Num(DefaultHeight))],
     srcSet |-> EmptySrcSet]

\* A missing-dimension literal that ignores the dimension that was given.
UnoptimizedResultDefaultsOnly(id, options) ==
    [id |-> id, via |-> "unoptimized", src |-> options.src.src,
     attributes |-> [width |-> Num(1200), height |-> Num(630)],
     options |-> [src |-> options.src, width |-> Num(1200), height |-> Num(630)],
     srcSet |-> [values |-> <<>>, attribute |-> <<>>]]

\* The object literal of the missing-dimension branch.
UnoptimizedResult(id, options) ==
    [id |-> id, via |-> "unoptimized", src |-> options.src.src,
     attributes |-> [width |-> OrElse(options.width, Num(DefaultWidth)),
                     height |-> OrElse(options.height, Num(DefaultHeight))],
     options |-> [src |-> options.src,
                  width |-> OrElse(options.width, Num(DefaultWidth)),
                  height |-> OrElse(options.height, Num(DefaultHeight))],
     srcSet |-> EmptySrcSet]

\* The object literal of the catch block of the string branch.
StringFallbackResult(id, options) ==
    [id |-> id, via |-> "fallback", src |-> options.src.src,
     attributes |-> [width |-> options.width, height |-> options.height],
     options |-> [src |-> options.src, width |-> options.width, height |-> options.height],
     srcSet |-> EmptySrcSet]

\* An ImageMetadata fallback copied from the string branches: 1200x630 for
\* what was not requested.
MetadataFallbackResultDefaults(id, options) ==
    [id |-> id, via |-> "fallback", src |-> options.src.src,
     attributes |-> [width |-> OrElse(options.width, Num(1200)),
                     height |-> OrElse(options.height, Num(630))],
     options |-> [src |-> options.src,
                  width |-> OrElse(options.width, Num(1200)),
                  height |-> OrElse(options.height, Num(630))],
     srcSet |-> [values |-> <<>>, attribute |-> <<>>]]

\* The object literal of the catch block of the ImageMetadata branch.
MetadataFallbackResult(id, options) ==
    LET metadata == options.src
    IN [id |-> id, via |-> "fallback", src |-> metadata.src,
        attributes |-> [width |-> OrElse(options.width, Num(metadata.width)),
                        height |-> OrElse(options.height, Num(metadata.height))],
        options |-> [src |-> options.src,
                     width |-> OrElse(options.width, Num(metadata.width)),
                     height |-> OrElse(options.height, Num(metadata.height))],
        srcSet |-> EmptySrcSet]

\* getImage arguments that ignore the requested quality.
GetImageArgsDefaultQuality(options) ==
    [src |-> options.src, width |-> options.width, height |-> options.height,
     format |-> OrElse(options.format, Webp),
     quality |-> Num(DefaultQuality)]

\* The argument object of the two getImage calls.
GetImageArgs(options) ==
    [src |-> options.src, width |-> options.width, height |-> options.height,
     format |-> OrElse(options.format, Webp),
     quality |-> OrElse(options.quality, Num(DefaultQuality))]

\* What getImage resolves to: a fresh object describing the encoded asset.
TranscodedResult(id, args) ==
    [id |-> id, via |-> "getImage", src |-> <<"/", "_">> \o args.src.src,
     attributes |-> [width |-> args.width, height |-> args.height],
     options |-> [src |-> args.src, width |-> args.width, height |-> args.height],
     srcSet |-> EmptySrcSet]

Null == [kind |-> "null"]

-----------------------------------------------------------------------------
(* State *)

VARIABLES
    imageCache,   \* the Map: a function from keys to results
    calls,        \* per call: where it is and what it was given and returned
    stats,        \* per call: getImage invocations, console.warn, console.error, Map.set
    validated     \* the last isValidImagePath call: its argument and what it returned

vars == <<imageCache, calls, stats, validated>>

\* The arguments of a getImage call that has not been made.
NoArgs == [src |-> NoSrc, width |-> Undefined, height |-> Undefined,
           format |-> Undefined, quality |-> Undefined]

\* isValidImagePath has not been called.
NotValidated == [called |-> FALSE]

NoOptions == [src |-> NoSrc, width |-> Undefined, height |-> Undefined,
              format |-> Undefined, quality |-> Undefined]

IdleCall == [pc |-> "idle", entry |-> "none", options |-> NoOptions,
             cacheKey |-> <<>>, args |-> NoArgs, path |-> "none", promise |-> "none",
             ret |-> Null]

NoStats == [getImage |-> 0, warn |-> 0, error |-> 0, set |-> 0]

\* A lookup that never finds the key.
HasNever(k) == FALSE

\* imageCache.has(cacheKey)
Has(k) == k \in DOMAIN imageCache

\* Map.prototype.set
MapSet(m, k, v) == [x \in DOMAIN m \cup {k} |-> IF x = k THEN v ELSE m[x]]

Init ==
    /\ imageCache = <<>>
    /\ calls = [c \in Calls |-> IdleCall]
    /\ stats = [c \in Calls |-> NoStats]
    /\ validated = NotValidated

-----------------------------------------------------------------------------
(* optimizeImage *)

\* A test that knows https:// only.
IsRemoteHttpsOnly(s) == StartsWith(s, HttpsPrefix)

\* src.startsWith('http://') || src.startsWith('https://')
IsRemote(s) == StartsWith(s, HttpPrefix) \/ StartsWith(s, HttpsPrefix)

\* A call that settles: the promise of the async function is fulfilled with r.
Return(call, path, r) ==
    [call EXCEPT !.pc = "done", !.path = path, !.promise = "fulfilled", !.ret = r]

\* if (imageCache.has(cacheKey)) return imageCache.get(cacheKey)
CacheHit(c, call) ==
    /\ calls' = [calls EXCEPT ![c] = Return(call, "hit", imageCache[call.cacheKey])]
    /\ UNCHANGED <<imageCache, stats>>

\* The remote branch: a mock result is stored and returned.
RemoteBranch(c, call) ==
    LET result == RemoteResult(c, call.options)
    IN /\ imageCache' = MapSet(imageCache, call.cacheKey, result)
       /\ calls' = [calls EXCEPT ![c] = Return(call, "remote", result)]
       /\ stats' = [stats EXCEPT ![c].set = @ + 1]

\* A missing-dimension branch that returns its result without storing it.
MissingDimensionsUnstored(c, call) ==
    LET result == UnoptimizedResult(c, call.options)
    IN /\ calls' = [calls EXCEPT ![c] = Return(call, "unoptimized", result)]
       /\ stats' = [stats EXCEPT ![c].warn = @ + 1]
       /\ UNCHANGED imageCache

\* The missing-dimension branch: console.warn, then an unoptimized result is
\* stored and returned.
MissingDimensions(c, call) ==
    LET result == UnoptimizedResult(c, call.options)
    IN /\ imageCache' = MapSet(imageCache, call.cacheKey, result)
       /\ calls' = [calls EXCEPT ![c] = Return(call, "unoptimized", result)]
       /\ stats' = [stats EXCEPT ![c].warn = @ + 1, ![c].set = @ + 1]

\* A call that joins the pending getImage of another call for its key instead
\* of making its own.
InvokeGetImageShared(c, call) ==
    LET pending == \E d \in Calls : /\ calls[d].pc = "await_getImage"
                                    /\ calls[d].cacheKey = call.cacheKey
    IN /\ calls' = [calls EXCEPT ![c] = [call EXCEPT !.pc = "await_getImage",
                                                     !.args = GetImageArgs(call.options),
                                                     !.promise = "pending"]]
       /\ stats' = [stats EXCEPT ![c].getImage = IF pending THEN @ ELSE @ + 1]
       /\ UNCHANGED imageCache

\* getImage is called and the function is suspended at its await.
InvokeGetImage(c, call) ==
    /\ calls' = [calls EXCEPT ![c] = [call EXCEPT !.pc = "await_getImage",
                                                  !.args = GetImageArgs(call.options),
                                                  !.promise = "pending"]]
    /\ stats' = [stats EXCEPT ![c].getImage = @ + 1]
    /\ UNCHANGED imageCache

\* optimizeImage(options), from its entry to its first return or await.
optimizeImage(c, options, entry) ==
    LET cacheKey == getCacheKey(options)
        call == [IdleCall EXCEPT !.entry = entry, !.options = options,
                                 !.cacheKey = cacheKey]
        src == options.src
    IN IF Has(cacheKey) THEN CacheHit(c, call)
       ELSE IF IsString(src) /\ IsRemote(src.src) THEN RemoteBranch(c, call)
       ELSE IF IsString(src) /\ (Falsy(options.width) \/ Falsy(options.height))
            THEN MissingDimensions(c, call)
       ELSE InvokeGetImage(c, call)

\* The fallback literal of the catch block that encloses the awaited getImage.
FallbackResult(id, options) ==
    IF IsString(options.src) THEN StringFallbackResult(id, options)
    ELSE MetadataFallbackResult(id, options)

\* getImage resolves and the result is returned without being stored.
GetImageResolveUnstored(c) ==
    /\ calls[c].pc = "await_getImage"
    /\ calls' = [calls EXCEPT ![c] =
                    Return(@, "optimized", TranscodedResult(c, calls[c].args))]
    /\ UNCHANGED <<imageCache, stats, validated>>

\* getImage resolves: imageCache.set(cacheKey, result); return result
GetImageResolve(c) ==
    /\ calls[c].pc = "await_getImage"
    /\ LET result == TranscodedResult(c, calls[c].args)
       IN /\ imageCache' = MapSet(imageCache, calls[c].cacheKey, result)
          /\ calls' = [calls EXCEPT ![c] = Return(@, "optimized", result)]
          /\ stats' = [stats EXCEPT ![c].set = @ + 1]
          /\ UNCHANGED validated

\* getImage rejects and nothing catches: the promise of the call is rejected.
GetImageRejectUncaught(c) ==
    /\ calls[c].pc = "await_getImage"
    /\ calls' = [calls EXCEPT ![c] = [@ EXCEPT !.pc = "done", !.path = "thrown",
                                               !.promise = "rejected"]]
    /\ UNCHANGED <<imageCache, stats, validated>>

\* getImage rejects: the catch block logs, stores the fallback and returns it.
GetImageReject(c) ==
    /\ calls[c].pc = "await_getImage"
    /\ LET result == FallbackResult(c, calls[c].options)
       IN /\ imageCache' = MapSet(imageCache, calls[c].cacheKey, result)
          /\ calls' = [calls EXCEPT ![c] = Return(@, "caught", result)]
          /\ stats' = [stats EXCEPT ![c].error = @ + 1, ![c].set = @ + 1]
          /\ UNCHANGED validated

-----------------------------------------------------------------------------
(* Wrappers *)

HeroWidth == 1200
HeroHeight == 630
HeroQuality == 80
CardWidth == 400
CardHeight == 225
CardQuality == 75

\* `options?.width` and its siblings of an absent options object are undefined.
NoOverrides == [width |-> Undefined, height |-> Undefined,
                format |-> Undefined, quality |-> Undefined]

HeroOptions(src, o) ==
    [src |-> src,
     width |-> OrElse(o.width, Num(HeroWidth)),
     height |-> OrElse(o.height, Num(HeroHeight)),
     format |-> OrElse(o.format, Webp),
     quality |-> OrElse(o.quality, Num(HeroQuality))]

\* A card wrapper that took the quality preset of the hero wrapper.
CardOptionsHeroQuality(src, o) ==
    [src |-> src,
     width |-> OrElse(o.width, Num(CardWidth)),
     height |-> OrElse(o.height, Num(CardHeight)),
     format |-> OrElse(o.format, Webp),
     quality |-> OrElse(o.quality, Num(HeroQuality))]

CardOptions(src, o) ==
    [src |-> src,
     width |-> OrElse(o.width, Num(CardWidth)),
     height |-> OrElse(o.height, Num(CardHeight)),
     format |-> OrElse(o.format, Webp),
     quality |-> OrElse(o.quality, Num(CardQuality))]

\* `!src` of the wrappers: undefined and the empty string.
NoSource(src) == src.kind = "undefined" \/ (IsString(src) /\ src.src = <<>>)

\* A wrapper that memoizes the null it returns for an absent source.
ReturnNullMemoized(c, src, entry) ==
    /\ calls' = [calls EXCEPT ![c] =
                    [IdleCall EXCEPT !.pc = "done", !.entry = entry, !.path = "null",
                                     !.options = [NoOptions EXCEPT !.src = src],
                                     !.promise = "fulfilled", !.ret = Null]]
    /\ imageCache' = MapSet(imageCache, <<"u", "n", "d", "e", "f", "i", "n", "e", "d">>, Null)
    /\ UNCHANGED stats

\* if (!src) return null
ReturnNull(c, src, entry) ==
    /\ calls' = [calls EXCEPT ![c] =
                    [IdleCall EXCEPT !.pc = "done", !.entry = entry, !.path = "null",
                                     !.options = [NoOptions EXCEPT !.src = src],
                                     !.promise = "fulfilled", !.ret = Null]]
    /\ UNCHANGED <<imageCache, stats>>

getOptimizedHeroImage(c, src, o) ==
    IF NoSource(src) THEN ReturnNull(c, src, "hero")
    ELSE optimizeImage(c, HeroOptions(src, o), "hero")

getOptimizedCardImage(c, src, o) ==
    IF NoSource(src) THEN ReturnNull(c, src, "card")
    ELSE optimizeImage(c, CardOptions(src, o), "card")

-----------------------------------------------------------------------------
(* The build: page-rendering code issues the calls *)

Request(src, w, h, f, q) ==
    [src |-> src, width |-> w, height |-> h, format |-> f, quality |-> q]

\* The requests page-rendering code makes of optimizeImage directly.
LocalRequests ==
    {Request(StringSrc(LocalPath), d[1], d[2], Undefined, Undefined) :
        d \in {<<Undefined, Undefined>>, <<Num(CardWidth), Undefined>>,
               <<Undefined, Num(CardHeight)>>, <<Num(CardWidth), Num(CardHeight)>>}}
    \cup {Request(StringSrc(LocalPath), Num(CardWidth), Num(CardHeight),
                  Webp, Num(DefaultQuality))}

RemoteRequests ==
    {Request(StringSrc(RemoteUrl), d[1], d[2], Undefined, Undefined) :
        d \in {<<Undefined, Undefined>>, <<Num(DefaultWidth), Num(DefaultHeight)>>}}
    \cup {Request(StringSrc(RemoteHttpUrl), Num(CardWidth), Undefined, Undefined, Undefined)}

AssetRequests ==
    {Request(Asset, d[1], d[2], Undefined, Undefined) :
        d \in {<<Undefined, Undefined>>, <<Num(CardWidth), Num(CardHeight)>>}}

OptionsPool == LocalRequests \cup RemoteRequests \cup AssetRequests

\* Overrides that ask the hero wrapper for the dimensions of a card.
DimensionOverrides ==
    [NoOverrides EXCEPT !.width = Num(CardWidth), !.height = Num(CardHeight)]

\* Overrides that ask the card wrapper for the default quality of optimizeImage.
QualityOverride == [NoOverrides EXCEPT !.quality = Num(DefaultQuality)]

\* <<src, options>> of the calls of getOptimizedHeroImage
HeroInputs ==
    {<<NoSrc, NoOverrides>>, <<NoSrc, DimensionOverrides>>,
     <<StringSrc(LocalPath), NoOverrides>>, <<StringSrc(LocalPath), DimensionOverrides>>}

\* <<src, options>> of the calls of getOptimizedCardImage
CardInputs ==
    {<<NoSrc, NoOverrides>>, <<NoSrc, QualityOverride>>,
     <<Asset, NoOverrides>>, <<StringSrc(LocalPath), QualityOverride>>}

\* Calls are numbered in the order in which they are made.
CanStart(c) == calls[c].pc = "idle" /\ \A d \in Calls : d < c => calls[d].pc # "idle"

Optimize(c) ==
    /\ CanStart(c)
    /\ \E options \in OptionsPool : optimizeImage(c, options, "optimizeImage")
    /\ UNCHANGED validated

Hero(c) ==
    /\ CanStart(c)
    /\ \E in \in HeroInputs : getOptimizedHeroImage(c, in[1], in[2])
    /\ UNCHANGED validated

Card(c) ==
    /\ CanStart(c)
    /\ \E in \in CardInputs : getOptimizedCardImage(c, in[1], in[2])
    /\ UNCHANGED validated

Next ==
    \E c \in Calls :
        \/ Optimize(c)
        \/ Hero(c)
        \/ Card(c)
        \/ GetImageResolve(c)
        \/ GetImageReject(c)

Spec == Init /\ [][Next]_vars

\* The getImage promise of call c settles.
Settle(c) == GetImageResolve(c) \/ GetImageReject(c)

\* getImage answers every invocation except those of the calls in Hung.
Responsive(Hung) == \A c \in Calls \ Hung : WF_vars(Settle(c))

-----------------------------------------------------------------------------
(* isValidImagePath *)

Slash == <<"/">>
DotSlash == <<".", "/">>
DotDotSlash == <<".", ".", "/">>

\* A validation that does not know the ../ form.
isValidImagePathNoParent(path) ==
    IF NoSource(path) THEN FALSE
    ELSE IF StartsWith(path.src, HttpPrefix) \/ StartsWith(path.src, HttpsPrefix) THEN TRUE
    ELSE IF StartsWith(path.src, Slash) THEN TRUE
    ELSE IF StartsWith(path.src, DotSlash) THEN TRUE
    ELSE FALSE

\* isValidImagePath(path); path is undefined or a string.
isValidImagePath(path) ==
    IF NoSource(path) THEN FALSE
    ELSE IF StartsWith(path.src, HttpPrefix) \/ StartsWith(path.src, HttpsPrefix) THEN TRUE
    ELSE IF StartsWith(path.src, Slash) THEN TRUE
    ELSE IF StartsWith(path.src, DotSlash) \/ StartsWith(path.src, DotDotSlash) THEN TRUE
    ELSE FALSE

\* Longest tail appended to a head to make a path.
MaxTailLen == 1

\* The beginnings of the paths given to isValidImagePath: the five accepted
\* prefixes and strings that come close to them.
PathHeads ==
    {<<>>, HttpPrefix, HttpsPrefix, Slash, DotSlash, DotDotSlash,
     <<"h", "t", "t", "p", ":", "/">>, <<"h", "t", "t", "p", "s", ":", "/">>,
     <<"h", "t", "t", "p">>, <<"H", "T", "T", "P", ":", "/", "/">>,
     <<"f", "t", "p", ":", "/", "/">>, <<".">>, <<".", ".">>, <<".", ".", ".">>,
     <<"a">>, <<"a", "/">>, <<" ", "/">>, <<"a", ".", "/">>}

PathTails == UNION {[1..n -> {"a", "/", "."}] : n \in 0..MaxTailLen}

PathPool == {NoSrc} \cup {StringSrc(h \o t) : h \in PathHeads, t \in PathTails}

\* Page code validates a path; the cache and the calls are not involved.
ValidatePath ==
    /\ \E path \in PathPool :
          validated' = [called |-> TRUE, path |-> path, result |-> isValidImagePath(path)]
    /\ UNCHANGED <<imageCache, calls, stats>>

\* The build before any image was requested, or after one remote image was.
PathInit ==
    /\ validated = NotValidated
    /\ \/ /\ imageCache = <<>>
          /\ calls = [c \in Calls |-> IdleCall]
          /\ stats = [c \in Calls |-> NoStats]
       \/ \E o \in RemoteRequests :
             LET call == [IdleCall EXCEPT !.entry = "optimizeImage", !.options = o,
                                          !.cacheKey = getCacheKey(o)]
                 result == RemoteResult(1, o)
             IN /\ imageCache = MapSet(<<>>, call.cacheKey, result)
                /\ calls = [c \in Calls |-> IF c = 1 THEN Return(call, "remote", result)
                                            ELSE IdleCall]
                /\ stats = [c \in Calls |-> IF c = 1 THEN [NoStats EXCEPT !.set = 1]
                                            ELSE NoStats]

PathNext == ValidatePath

PathSpec == PathInit /\ [][PathNext]_vars

-----------------------------------------------------------------------------
(* Vocabulary of the properties *)

\* Call c enters its function in this step.
Starts(c) == calls[c].pc = "idle" /\ calls'[c].pc # "idle"

\* Call c returns in this step.
Returns(c) == calls[c].pc # "done" /\ calls'[c].pc = "done"

\* Call c has gone through optimizeImage (directly or from a wrapper).
Optimizes(c) == calls[c].pc # "idle" /\ calls[c].path # "null"

Completed(c) == calls[c].pc = "done" /\ calls[c].path # "null"

\* Number of getImage invocations made for key k so far.
RECURSIVE InvocationsUpTo(_, _)
InvocationsUpTo(k, n) ==
    IF n = 0 THEN 0
    ELSE InvocationsUpTo(k, n - 1)
         + (IF Optimizes(n) /\ calls[n].cacheKey = k THEN stats[n].getImage ELSE 0)

Invocations(k) == InvocationsUpTo(k, MaxCalls)

-----------------------------------------------------------------------------
(* C1 *)

\* C1: once a call optimizeImage(R) has completed, a call that starts later
\* with the same source and the same width, height, format and quality
\* returns at once the very Result stored under R's key, invokes getImage
\* zero times, logs no warning and no error, and leaves the cache unchanged.
C1_SequentialMemoization ==
    [][\A c, d \in Calls :
          (Completed(c) /\ Starts(d) /\ calls'[d].path # "null"
             /\ calls'[d].options = calls[c].options)
          => /\ calls'[d].pc = "done"
             /\ calls'[d].promise = "fulfilled"
             /\ calls[c].cacheKey \in DOMAIN imageCache
             /\ calls'[d].ret = imageCache[calls[c].cacheKey]
             /\ stats'[d] = NoStats
             /\ imageCache' = imageCache]_vars

\* A second call with the request of a completed transcoding call has returned
\* from the cache.
C1_Witness ==
    \E c, d \in Calls :
        /\ c < d /\ Completed(c) /\ Completed(d)
        /\ calls[c].options = calls[d].options
        /\ calls[c].path = "optimized" /\ calls[d].path = "hit"
        /\ calls[d].ret = calls[c].ret

-----------------------------------------------------------------------------
(* C2 *)

\* C2 as stated: getImage is invoked at most once per distinct cache key.
C2_AtMostOncePerKey ==
    \A c \in Calls : Optimizes(c) => Invocations(calls[c].cacheKey) <= 1

\* C2 as amended: getImage is invoked for a key only while that key is absent
\* from the cache, so every call that invoked it for the same key before is
\* still suspended at its await; calls for one key that do not overlap in
\* flight invoke it at most once.
C2_InvokedOnlyWhileAbsent ==
    [][\A d \in Calls :
          stats'[d].getImage > stats[d].getImage
          => /\ stats'[d].getImage = 1
             /\ calls'[d].cacheKey \notin DOMAIN imageCache
             /\ \A c \in Calls \ {d} :
                   (Optimizes(c) /\ calls[c].cacheKey = calls'[d].cacheKey
                      /\ stats[c].getImage > 0)
                   => calls[c].pc = "await_getImage"]_vars

\* Three calls for one key, none overlapping: one invocation.
C2_Witness ==
    \E k \in DOMAIN imageCache :
        /\ \A c \in Calls : Completed(c) /\ calls[c].cacheKey = k
        /\ calls[1].path \in {"optimized", "caught"}
        /\ \A c \in Calls \ {1} : calls[c].path = "hit"
        /\ Invocations(k) = 1

-----------------------------------------------------------------------------
(* C3 *)

\* C3: once a key is populated, no later step replaces the value stored under it.
C3_WriteOnce ==
    [][\A k \in DOMAIN imageCache :
          k \in DOMAIN imageCache' /\ imageCache'[k] = imageCache[k]]_vars

\* C3, its particular case: a stored transcoded Result is never replaced by a
\* fallback Result.
C3_NoDowngrade ==
    [][\A k \in DOMAIN imageCache :
          imageCache[k].via = "getImage" => imageCache'[k].via # "fallback"]_vars

-----------------------------------------------------------------------------
(* C4 *)

\* The parameters of a request after defaults, as the specification counts
\* them: an unset format is webp, an unset quality is 80, and the unset
\* dimensions of a remote source are 1200 and 630.
C4_Effective(o) ==
    LET remote == IsString(o.src) /\ (StartsWith(o.src.src, HttpPrefix)
                                      \/ StartsWith(o.src.src, HttpsPrefix))
    IN [width |-> IF remote /\ o.width = Undefined THEN Num(1200) ELSE o.width,
        height |-> IF remote /\ o.height = Undefined THEN Num(630) ELSE o.height,
        format |-> IF o.format = Undefined THEN Webp ELSE o.format,
        quality |-> IF o.quality = Undefined THEN Num(80) ELSE o.quality]

\* C4: two requests for the same source with the same effective parameters
\* have the same cache key, so the later of two such calls that do not
\* overlap is a cache hit.
C4_KeyEquivalence ==
    \A c, d \in Calls :
        (Optimizes(c) /\ Optimizes(d) /\ calls[c].options.src = calls[d].options.src
           /\ C4_Effective(calls[c].options) = C4_Effective(calls[d].options))
        => calls[c].cacheKey = calls[d].cacheKey

-----------------------------------------------------------------------------
(* C5 *)

IsResult(r) == r # Null /\ r.via \in {"remote", "unoptimized", "fallback", "getImage"}

\* C5: no call ever ends with a rejected promise; a call that is past its
\* await, or never had one, has returned: a Result from optimizeImage, a
\* Result or null from the wrappers.
C5_NoOutwardFailure ==
    \A c \in Calls :
        /\ calls[c].promise # "rejected"
        /\ calls[c].pc \in {"idle", "await_getImage", "done"}
        /\ calls[c].pc = "await_getImage" => calls[c].promise = "pending"
        /\ calls[c].pc = "done" =>
              /\ calls[c].promise = "fulfilled"
              /\ calls[c].entry = "optimizeImage" => IsResult(calls[c].ret)
              /\ calls[c].entry \in {"hero", "card"} =>
                    (calls[c].ret = Null \/ IsResult(calls[c].ret))

\* getImage has thrown for a local path, for an asset and under a wrapper, and
\* every call has returned; a wrapper has returned null.
C5_Witness ==
    /\ \A c \in Calls : calls[c].pc = "done"
    /\ \E c \in Calls : calls[c].path = "caught" /\ IsString(calls[c].options.src)
    /\ \E c \in Calls : calls[c].path = "caught" /\ ~IsString(calls[c].options.src)
                        /\ calls[c].entry = "card"
    /\ \E c \in Calls : calls[c].path = "null"

-----------------------------------------------------------------------------
(* C6 *)

\* C6: a call that misses the cache has made no insertion while it is
\* suspended; the step in which it returns makes exactly one insertion, under
\* its own key, of the Result it returns, and touches no other key; a call
\* that has returned has its key in the cache.
C6_PopulateBeforeReturn ==
    /\ [](\A c \in Calls :
            /\ calls[c].pc = "await_getImage" => stats[c].set = 0
            /\ Completed(c) =>
                  /\ calls[c].cacheKey \in DOMAIN imageCache
                  /\ stats[c].set = (IF calls[c].path = "hit" THEN 0 ELSE 1))
    /\ [][\A c \in Calls :
            (Returns(c) /\ calls'[c].path \notin {"hit", "null"})
            => /\ stats'[c].set = 1
               /\ IsResult(calls'[c].ret)
               /\ imageCache' = MapSet(imageCache, calls'[c].cacheKey, calls'[c].ret)]_vars

\* The missing-dimension path and the failure path have been taken to their
\* return, and what each returned is what the cache holds under its key.
C6_Witness ==
    \E a, b \in Calls :
        /\ calls[a].path = "unoptimized" /\ calls[b].path = "caught"
        /\ calls[a].pc = "done" /\ calls[b].pc = "done"
        /\ imageCache[calls[a].cacheKey] = calls[a].ret
        /\ imageCache[calls[b].cacheKey] = calls[b].ret

-----------------------------------------------------------------------------
(* C7 *)

\* The request of C7: a local path with explicit width and height.
C7_LocalWithDimensions(o) ==
    /\ IsString(o.src)
    /\ ~(StartsWith(o.src.src, HttpPrefix) \/ StartsWith(o.src.src, HttpsPrefix))
    /\ o.width # Undefined /\ o.height # Undefined

\* C7: when getImage throws for a local path with width and height, the call
\* returns a Result with the request's source, width and height and an empty
\* source-set, logs one error and stores that Result under its key; a later
\* identical call returns that same Result, invokes nothing and logs nothing.
C7_FailureCached ==
    [][\A c \in Calls :
          /\ (Returns(c) /\ calls'[c].path = "caught"
                /\ C7_LocalWithDimensions(calls'[c].options))
             => /\ calls'[c].ret.src = calls'[c].options.src.src
                /\ calls'[c].ret.attributes = [width |-> calls'[c].options.width,
                                               height |-> calls'[c].options.height]
                /\ calls'[c].ret.srcSet.values = <<>>
                /\ stats'[c].error = 1
                /\ imageCache'[calls'[c].cacheKey] = calls'[c].ret
          /\ \A d \in Calls :
                (Completed(c) /\ calls[c].path = "caught"
                   /\ C7_LocalWithDimensions(calls[c].options)
                   /\ Starts(d) /\ calls'[d].path # "null"
                   /\ calls'[d].options = calls[c].options)
                => /\ calls'[d].pc = "done"
                   /\ calls'[d].ret = calls[c].ret
                   /\ stats'[d] = NoStats]_vars

-----------------------------------------------------------------------------
(* C8 *)

\* C8: a call for an http:// or https:// string never invokes getImage and
\* never warns; it has returned, and what it returned is stored under its key
\* and carries the URL, the requested width or else 1200, the requested height
\* or else 630, and an empty source-set.
C8_RemotePassThrough ==
    \A c \in Calls :
        (Optimizes(c) /\ IsString(calls[c].options.src)
           /\ (StartsWith(calls[c].options.src.src, HttpPrefix)
               \/ StartsWith(calls[c].options.src.src, HttpsPrefix)))
        => LET o == calls[c].options
               r == calls[c].ret
           IN /\ calls[c].pc = "done"
              /\ stats[c].getImage = 0 /\ stats[c].warn = 0 /\ stats[c].error = 0
              /\ calls[c].cacheKey \in DOMAIN imageCache
              /\ imageCache[calls[c].cacheKey] = r
              /\ r.src = o.src.src
              /\ r.attributes.width = (IF o.width = Undefined THEN Num(1200) ELSE o.width)
              /\ r.attributes.height = (IF o.height = Undefined THEN Num(630) ELSE o.height)
              /\ r.srcSet = [values |-> <<>>, attribute |-> <<>>]

\* An https URL without dimensions and an http URL with a width only have
\* both been passed through.
C8_Witness ==
    \E a, b \in Calls :
        /\ calls[a].path = "remote" /\ calls[a].options.src.src = RemoteUrl
        /\ calls[a].options.width = Undefined
        /\ calls[a].ret.attributes = [width |-> Num(1200), height |-> Num(630)]
        /\ calls[b].path = "remote" /\ calls[b].options.src.src = RemoteHttpUrl
        /\ calls[b].ret.attributes = [width |-> Num(400), height |-> Num(630)]

-----------------------------------------------------------------------------
(* C9 and C10 *)

\* The request of C9 and C10: a local path that lacks width or height.
C9_LocalWithoutDimensions(o) ==
    /\ IsString(o.src)
    /\ ~(StartsWith(o.src.src, HttpPrefix) \/ StartsWith(o.src.src, HttpsPrefix))
    /\ (o.width = Undefined \/ o.height = Undefined)

\* Number of warnings logged so far by calls with the request o.
RECURSIVE C9_WarningsUpTo(_, _)
C9_WarningsUpTo(o, n) ==
    IF n = 0 THEN 0
    ELSE C9_WarningsUpTo(o, n - 1)
         + (IF Optimizes(n) /\ calls[n].options = o THEN stats[n].warn ELSE 0)

\* C9: a call for a local path that lacks width or height never invokes
\* getImage and has returned with its key cached; over all the calls made with
\* that request so far, exactly one warning has been logged.
C9_WarnsOnce ==
    \A c \in Calls :
        (Optimizes(c) /\ C9_LocalWithoutDimensions(calls[c].options))
        => /\ calls[c].pc = "done"
           /\ stats[c].getImage = 0
           /\ calls[c].cacheKey \in DOMAIN imageCache
           /\ C9_WarningsUpTo(calls[c].options, MaxCalls) = 1

\* C10 as stated: the Result of the missing-dimension branch is 1200x630 with
\* an empty source-set.
C10_DefaultDimensions ==
    \A c \in Calls :
        calls[c].path = "unoptimized"
        => /\ calls[c].ret.attributes = [width |-> Num(1200), height |-> Num(630)]
           /\ calls[c].ret.srcSet.values = <<>>

\* C10 as amended: the Result of the missing-dimension branch carries the
\* requested width if one was given and else 1200, the requested height if one
\* was given and else 630, and an empty source-set.
C10_RequestedOrDefaultDimensions ==
    \A c \in Calls :
        calls[c].path = "unoptimized"
        => LET o == calls[c].options
           IN /\ calls[c].ret.attributes.width =
                    (IF o.width = Undefined THEN Num(1200) ELSE o.width)
              /\ calls[c].ret.attributes.height =
                    (IF o.height = Undefined THEN Num(630) ELSE o.height)
              /\ calls[c].ret.srcSet.values = <<>>
              /\ calls[c].ret.src = o.src.src

\* The branch has been taken with the width only, with the height only and
\* with neither.
C10_Witness ==
    \E a, b, c \in Calls :
        /\ calls[a].path = "unoptimized" /\ calls[b].path = "unoptimized"
        /\ calls[c].path = "unoptimized"
        /\ calls[a].ret.attributes = [width |-> Num(400), height |-> Num(630)]
        /\ calls[b].ret.attributes = [width |-> Num(1200), height |-> Num(225)]
        /\ calls[c].ret.attributes = [width |-> Num(1200), height |-> Num(630)]

-----------------------------------------------------------------------------
(* C13 *)

\* C13: isValidImagePath returns true exactly when the path is present and
\* begins with http://, https://, /, ./ or ../, whatever the cache holds, and
\* the call changes neither the cache nor any optimizeImage call.
C13_PathValidation ==
    /\ [](validated.called =>
            LET p == validated.path
                s == p.src
            IN validated.result =
                  /\ p.kind = "string"
                  /\ \/ Len(s) >= 1 /\ s[1] = "/"
                     \/ Len(s) >= 2 /\ s[1] = "." /\ s[2] = "/"
                     \/ Len(s) >= 3 /\ s[1] = "." /\ s[2] = "." /\ s[3] = "/"
                     \/ Len(s) >= 7 /\ s[1] = "h" /\ s[2] = "t" /\ s[3] = "t" /\ s[4] = "p"
                        /\ s[5] = ":" /\ s[6] = "/" /\ s[7] = "/"
                     \/ Len(s) >= 8 /\ s[1] = "h" /\ s[2] = "t" /\ s[3] = "t" /\ s[4] = "p"
                        /\ s[5] = "s" /\ s[6] = ":" /\ s[7] = "/" /\ s[8] = "/")
    /\ [][validated' # validated => UNCHANGED <<imageCache, calls, stats>>]_vars

\* A ../ path has been accepted while the cache held an entry.
C13_Witness ==
    /\ validated.called /\ validated.result
    /\ validated.path = StringSrc(<<".", ".", "/", "a">>)
    /\ DOMAIN imageCache # {}

-----------------------------------------------------------------------------
(* C11 *)

\* C11: a wrapper called with an absent source returns null in the same step,
\* computes no key, invokes nothing, logs nothing and leaves the cache and
\* every other call as they were.
C11_NullSourceShortCircuit ==
    [][\A c \in Calls :
          (Starts(c) /\ calls'[c].entry \in {"hero", "card"}
             /\ calls'[c].options.src = NoSrc)
          => /\ calls'[c].pc = "done"
             /\ calls'[c].promise = "fulfilled"
             /\ calls'[c].ret = Null
             /\ calls'[c].cacheKey = <<>>
             /\ calls'[c].args = NoArgs
             /\ imageCache' = imageCache
             /\ stats' = stats
             /\ \A d \in Calls \ {c} : calls'[d] = calls[d]]_vars

\* Both wrappers have returned null while the cache held an entry.
C11_Witness ==
    /\ DOMAIN imageCache # {}
    /\ \E c, d \in Calls :
          /\ calls[c].entry = "hero" /\ calls[c].path = "null" /\ calls[c].ret = Null
          /\ calls[d].entry = "card" /\ calls[d].path = "null" /\ calls[d].ret = Null
    /\ \A c \in Calls : stats[c].set = (IF c = 1 THEN 1 ELSE 0)

-----------------------------------------------------------------------------
(* C12 *)

\* The request a wrapper is to issue for the input in = <<src, overrides>>
\* with the presets w, h and q: each field is the override if given.
C12_Preset(in, w, h, q) ==
    [src |-> in[1],
     width |-> IF in[2].width = Undefined THEN Num(w) ELSE in[2].width,
     height |-> IF in[2].height = Undefined THEN Num(h) ELSE in[2].height,
     format |-> IF in[2].format = Undefined THEN Webp ELSE in[2].format,
     quality |-> IF in[2].quality = Undefined THEN Num(q) ELSE in[2].quality]

-----------------------------------------------------------------------------
(* C14 *)

\* A request that reaches getImage when it misses: an asset, or a local path
\* with width and height.
C14_Transcodable(o) ==
    \/ o.src.kind = "ImageMetadata"
    \/ /\ o.src.kind = "string"
       /\ ~(StartsWith(o.src.src, HttpPrefix) \/ StartsWith(o.src.src, HttpsPrefix))
       /\ o.width # Undefined /\ o.height # Undefined

\* C14: a call on a transcoding path that starts while another call for its
\* key is awaiting getImage and the key is not yet in the cache misses the
\* cache and invokes getImage itself; and each such call, when its getImage
\* settles, makes its own insertion under the key.
C14_NoInFlightDeduplication ==
    [][\A d \in Calls :
          /\ (/\ Starts(d) /\ calls'[d].path # "null"
              /\ C14_Transcodable(calls'[d].options)
              /\ calls'[d].cacheKey \notin DOMAIN imageCache
              /\ \E c \in Calls : /\ calls[c].pc = "await_getImage"
                                  /\ calls[c].cacheKey = calls'[d].cacheKey)
             => /\ calls'[d].pc = "await_getImage"
                /\ stats'[d].getImage = 1
                /\ imageCache' = imageCache
          /\ (calls[d].pc = "await_getImage" /\ Returns(d))
             => /\ stats'[d].set = 1
                /\ imageCache'[calls[d].cacheKey] = calls'[d].ret
                /\ calls'[d].ret.id = d]_vars

\* Two calls with one request have each invoked getImage once and each made
\* one insertion: two invocations for one key.
C14_Witness ==
    \E c, d \in Calls :
        /\ c < d /\ calls[c].options = calls[d].options
        /\ calls[c].path \in {"optimized", "caught"}
        /\ calls[d].path \in {"optimized", "caught"}
        /\ stats[c].getImage = 1 /\ stats[d].getImage = 1
        /\ stats[c].set = 1 /\ stats[d].set = 1
        /\ Invocations(calls[c].cacheKey) = 2

-----------------------------------------------------------------------------
(* C15 *)

\* C15: when getImage throws for an asset, the call returns and stores a
\* Result with the asset's own src, the requested width if given and else the
\* intrinsic width, the requested height if given and else the intrinsic
\* height, and an empty source-set; a later identical call does not invoke
\* getImage.
C15_AssetFailureDimensions ==
    [][\A c \in Calls :
          /\ (Returns(c) /\ calls'[c].path = "caught"
                /\ calls'[c].options.src.kind = "ImageMetadata")
             => LET o == calls'[c].options
                    r == calls'[c].ret
                IN /\ r.src = o.src.src
                   /\ r.attributes.width =
                         (IF o.width = Undefined THEN Num(o.src.width) ELSE o.width)
                   /\ r.attributes.height =
                         (IF o.height = Undefined THEN Num(o.src.height) ELSE o.height)
                   /\ r.srcSet.values = <<>>
                   /\ imageCache'[calls'[c].cacheKey] = r
          /\ \A d \in Calls :
                (Completed(c) /\ calls[c].path = "caught"
                   /\ calls[c].options.src.kind = "ImageMetadata"
                   /\ Starts(d) /\ calls'[d].path # "null"
                   /\ calls'[d].options = calls[c].options)
                => /\ calls'[d].pc = "done"
                   /\ stats'[d].getImage = 0]_vars

\* getImage has thrown for the asset without dimensions and for the asset at
\* 400x225, and a repeat of the first request was served from the cache.
C15_Witness ==
    /\ calls[1].path = "caught" /\ calls[1].options = Request(Asset, Undefined, Undefined,
                                                            Undefined, Undefined)
    /\ calls[1].ret.attributes = [width |-> Num(800), height |-> Num(600)]
    /\ calls[2].path = "caught" /\ calls[2].options.src = Asset
    /\ calls[2].ret.attributes = [width |-> Num(400), height |-> Num(225)]
    /\ calls[3].path = "hit" /\ calls[3].options = calls[1].options
    /\ calls[3].ret = calls[1].ret /\ stats[3].getImage = 0

-----------------------------------------------------------------------------
(* C16 *)

\* C16: every getImage invocation is for a request whose source is an asset
\* or a non-remote path string with width and height both set, and it passes
\* the request's src, width and height unchanged, the requested format or
\* else webp, and the requested quality or else 80.
C16_GetImageArguments ==
    \A c \in Calls :
       stats[c].getImage > 0
       => LET o == calls[c].options
              a == calls[c].args
          IN /\ C14_Transcodable(o)
             /\ a.src = o.src
             /\ a.width = o.width
             /\ a.height = o.height
             /\ a.format = (IF o.format = Undefined THEN Webp ELSE o.format)
             /\ a.quality = (IF o.quality = Undefined THEN Num(80) ELSE o.quality)

\* A card-wrapper request for the asset was transcoded at quality 75, and a
\* direct request without format or quality at webp and quality 80.
C16_Witness ==
    \E c, d \in Calls :
       /\ calls[c].entry = "card" /\ stats[c].getImage = 1
       /\ calls[c].options.src = Asset /\ calls[c].args.quality = Num(75)
       /\ calls[d].entry = "optimizeImage" /\ stats[d].getImage = 1
       /\ calls[d].options.quality = Undefined /\ calls[d].options.format = Undefined
       /\ calls[d].args.quality = Num(80) /\ calls[d].args.format = Webp

-----------------------------------------------------------------------------
(* C17 *)

\* Call c has been started through optimizeImage or through a wrapper that
\* reached optimizeImage.
C17_Started(c) == calls[c].pc # "idle" /\ calls[c].path # "null"

\* Call c has returned a Result to its caller.
C17_Returned(c) ==
    /\ calls[c].pc = "done" /\ calls[c].promise = "fulfilled"
    /\ IsResult(calls[c].ret)

\* C17: a call on the cache-hit, remote or missing-dimension path returns in
\* the step that starts it; a call awaiting getImage has not returned and has
\* inserted nothing; and whichever set of calls getImage never answers, every
\* other started call eventually returns a Result (with no call left
\* unanswered: every started call).
C17_CompletionDependsOnGetImage ==
    /\ [][\A c \in Calls :
             (Starts(c) /\ ~C14_Transcodable(calls'[c].options)
                /\ calls'[c].path # "null")
             => C17_Returned(c)']_vars
    /\ [](\A c \in Calls :
             calls[c].pc = "await_getImage"
             => /\ calls[c].promise = "pending" /\ calls[c].ret = Null
                /\ stats[c].set = 0)
    /\ \A Hung \in SUBSET Calls :
          Responsive(Hung)
          => \A c \in Calls \ Hung : C17_Started(c) ~> C17_Returned(c)

\* A call is still awaiting getImage, with nothing of it in the cache, while
\* a call started after it for another key has returned its Result.
C17_Witness ==
    \E c, d \in Calls :
       /\ c < d
       /\ calls[c].pc = "await_getImage"
       /\ ~Has(calls[c].cacheKey)
       /\ calls[d].cacheKey # calls[c].cacheKey
       /\ C17_Returned(d) /\ calls[d].path = "optimized"

-----------------------------------------------------------------------------
(* C18 *)

\* Number of cache insertions made under key k so far.
RECURSIVE C18_InsertionsUpTo(_, _)
C18_InsertionsUpTo(k, n) ==
    IF n = 0 THEN 0
    ELSE C18_InsertionsUpTo(k, n - 1)
         + (IF Optimizes(n) /\ calls[n].cacheKey = k THEN stats[n].set ELSE 0)

\* Number of warnings logged under key k so far.
RECURSIVE C18_WarningsUpTo(_, _)
C18_WarningsUpTo(k, n) ==
    IF n = 0 THEN 0
    ELSE C18_WarningsUpTo(k, n - 1)
         + (IF Optimizes(n) /\ calls[n].cacheKey = k THEN stats[n].warn ELSE 0)

\* C18: a request that never reaches getImage (a remote URL, or a path string
\* lacking width or height) is looked up and inserted in the one step that
\* starts its call; under its key at most one Result is ever inserted, at most
\* one warning is logged, and every caller of the key receives the identical
\* Result.
C18_SynchronousRaceFree ==
    \A c \in Calls :
       (Optimizes(c) /\ ~C14_Transcodable(calls[c].options))
       => LET k == calls[c].cacheKey
          IN /\ calls[c].pc = "done"
             /\ C18_InsertionsUpTo(k, MaxCalls) <= 1
             /\ C18_WarningsUpTo(k, MaxCalls) <= 1
             /\ \A d \in Calls :
                   (Completed(d) /\ calls[d].cacheKey = k)
                   => calls[d].ret = calls[c].ret

-----------------------------------------------------------------------------
(* C19 *)

\* C19: a Result returned from the cache was computed by a call whose request
\* had the same source (the same kind, path string or ImageMetadata, and the
\* same identifier); and requests of different source kinds never have the
\* same cache key.
C19_NoCrossKindHit ==
    /\ \A c \in Calls :
          calls[c].path = "hit"
          => calls[calls[c].ret.id].options.src = calls[c].options.src
    /\ \A c, d \in Calls :
          (Optimizes(c) /\ Optimizes(d)
             /\ calls[c].options.src.kind # calls[d].options.src.kind)
          => calls[c].cacheKey # calls[d].cacheKey

====
